---- MODULE Spec2Model ----
(***************************************************************************)
(* Model of aish_agent/planner_node.py: the PlannerNode of the agent graph. *)
(*                                                                         *)
(* A text (the LLM response, a user instruction, the content of a JSON     *)
(* string) is a sequence of atoms.  The atoms "{", "}", "[", "]", ":",     *)
(* ",", " ", the quote and the backslash are the characters the code and   *)
(* the JSON grammar look at; every other atom is an unbroken run of other  *)
(* characters (a word or a number).                                        *)
(*                                                                         *)
(* A Python value is a pair <<tag, payload>>:                              *)
(*   "str"  the payload is a text      "num"  the payload is an integer    *)
(*   "bool" the payload is a BOOLEAN   "null" the payload is 0             *)
(*   "list" the payload is a sequence of values                            *)
(*   "dict" the payload is a sequence of <<key text, value>> pairs with    *)
(*          distinct keys, in insertion order                              *)
(***************************************************************************)
EXTENDS Integers, Sequences, FiniteSets, TLC

VARIABLES
    op,               \* the method the caller invoked: "none" before any call
    status,           \* "idle", "returned" or "raised"
    arg,              \* __call__: the contents of the state dict when passed
    state,            \* __call__: the contents of that dict after the call
    result,           \* __call__: the dict returned
    plan_arg,         \* plan: the instruction passed
    outcome,          \* plan: what self.llm.invoke did
    plan_ret,         \* plan: the value returned
    parse_arg,        \* _parse_response: the text passed
    parsed,           \* _parse_response: the value returned
    llm_invocations   \* the number of calls of self.llm.invoke

vars == <<op, status, arg, state, result, plan_arg, outcome, plan_ret,
          parse_arg, parsed, llm_invocations>>

\* ------------------------------------------------------------------ values

Str(s) == <<"str", s>>

Num(n) == <<"num", n>>

Bool(b) == <<"bool", b>>

Null == <<"null", 0>>

List(xs) == <<"list", xs>>

Dict(kvs) == <<"dict", kvs>>

\* d[key] = val on a dict: an existing key keeps its position, a new key is
\* appended.
DictPut(kvs, key, val) ==
    IF \E i \in 1..Len(kvs) : kvs[i][1] = key
    THEN [i \in 1..Len(kvs) |-> IF kvs[i][1] = key THEN <<key, val>> ELSE kvs[i]]
    ELSE Append(kvs, <<key, val>>)

\* key in d
DictHas(d, key) == \E i \in 1..Len(d[2]) : d[2][i][1] = key

\* d.get(key): None when the key is absent
DictGet(d, key) ==
    IF DictHas(d, key)
    THEN d[2][CHOOSE i \in 1..Len(d[2]) : d[2][i][1] = key][2]
    ELSE Null

\* ------------------------------------------------------------------- texts

\* str.strip(): drop the leading and the trailing whitespace
RECURSIVE LStrip(_)
LStrip(s) == IF s # <<>> /\ Head(s) = " " THEN LStrip(Tail(s)) ELSE s

RECURSIVE RStrip(_)
RStrip(s) ==
    IF s # <<>> /\ s[Len(s)] = " " THEN RStrip(SubSeq(s, 1, Len(s) - 1)) ELSE s

Strip(s) == RStrip(LStrip(s))

\* str.startswith(c) for a one-character c
StartsWith(s, c) == s # <<>> /\ s[1] = c

\* str.find(c): 0-based index of the first c, -1 when there is none
Find(s, c) ==
    IF \E i \in 1..Len(s) : s[i] = c
    THEN (CHOOSE i \in 1..Len(s) : s[i] = c /\ \A j \in 1..(i - 1) : s[j] # c) - 1
    ELSE -1

\* str.rfind(c): 0-based index of the last c, -1 when there is none
RFind(s, c) ==
    IF \E i \in 1..Len(s) : s[i] = c
    THEN (CHOOSE i \in 1..Len(s) : s[i] = c /\ \A j \in (i + 1)..Len(s) : s[j] # c) - 1
    ELSE -1

\* s[a:b] for 0 <= a, 0 <= b: empty when b <= a
Slice(s, a, b) ==
    LET hi == IF b > Len(s) THEN Len(s) ELSE b
    IN  IF hi <= a THEN <<>> ELSE SubSeq(s, a + 1, hi)

\* -------------------------------------------------------------- json.loads

NumAtoms == {"1", "2"}

NumOf(a) == IF a = "1" THEN 1 ELSE 2

AtomOf(n) == IF n = 1 THEN "1" ELSE "2"

Fail == [ok |-> FALSE, val |-> Null, pos |-> 0]

Ok(val, pos) == [ok |-> TRUE, val |-> val, pos |-> pos]

RECURSIVE SkipWs(_, _)
SkipWs(s, i) == IF i <= Len(s) /\ s[i] = " " THEN SkipWs(s, i + 1) ELSE i

\* the content of a string literal whose opening quote precedes position j
RECURSIVE ScanString(_, _, _)
ScanString(s, j, acc) ==
    IF j > Len(s) THEN Fail
    ELSE IF s[j] = "\"" THEN Ok(Str(acc), j + 1)
    ELSE IF s[j] = "\\"
         THEN IF j + 1 <= Len(s) /\ s[j + 1] \in {"\"", "\\"}
              THEN ScanString(s, j + 2, Append(acc, s[j + 1]))
              ELSE Fail
    ELSE ScanString(s, j + 1, Append(acc, s[j]))

RECURSIVE ParseValue(_, _)
RECURSIVE ParseMembers(_, _, _)
RECURSIVE ParseElements(_, _, _)

\* after a member of an object: "}" ends the object, "," starts the next
\* member (m is the position after the member and the whitespace behind it)
AfterMember(s, kvs, m) ==
    IF m > Len(s) THEN Fail
    ELSE IF s[m] = "}" THEN Ok(Dict(kvs), m + 1)
    ELSE IF s[m] = "," THEN ParseMembers(s, SkipWs(s, m + 1), kvs)
    ELSE Fail

\* the value val of the member named key has been read
MemberValue(s, acc, key, val) ==
    IF ~val.ok THEN Fail
    ELSE AfterMember(s, DictPut(acc, key, val.val), SkipWs(s, val.pos))

\* the key of a member has been read; c is the position of the ":" expected
MemberColon(s, acc, key, c) ==
    IF c > Len(s) \/ s[c] # ":" THEN Fail
    ELSE MemberValue(s, acc, key, ParseValue(s, SkipWs(s, c + 1)))

\* key is the result of reading the string literal that names a member
MemberKey(s, acc, key) ==
    IF ~key.ok THEN Fail
    ELSE MemberColon(s, acc, key.val[2], SkipWs(s, key.pos))

\* the members of an object, the first key expected at position j
ParseMembers(s, j, acc) ==
    IF j > Len(s) \/ s[j] # "\"" THEN Fail
    ELSE MemberKey(s, acc, ScanString(s, j + 1, <<>>))

\* after an element of an array: "]" ends the array, "," starts the next
\* element
AfterElement(s, xs, m) ==
    IF m > Len(s) THEN Fail
    ELSE IF s[m] = "]" THEN Ok(List(xs), m + 1)
    ELSE IF s[m] = "," THEN ParseElements(s, SkipWs(s, m + 1), xs)
    ELSE Fail

\* the element val of an array has been read
ElementValue(s, acc, val) ==
    IF ~val.ok THEN Fail
    ELSE AfterElement(s, Append(acc, val.val), SkipWs(s, val.pos))

\* the elements of an array, the first one expected at position j
ParseElements(s, j, acc) == ElementValue(s, acc, ParseValue(s, j))

\* after "{": j is the position of the first member or of "}"
ObjectBody(s, j) ==
    IF j <= Len(s) /\ s[j] = "}" THEN Ok(Dict(<<>>), j + 1)
    ELSE ParseMembers(s, j, <<>>)

\* after "[": j is the position of the first element or of "]"
ArrayBody(s, j) ==
    IF j <= Len(s) /\ s[j] = "]" THEN Ok(List(<<>>), j + 1)
    ELSE ParseElements(s, j, <<>>)

\* the JSON value that starts at position i (no whitespace skipped)
ParseValue(s, i) ==
    IF i > Len(s) THEN Fail
    ELSE IF s[i] = "{" THEN ObjectBody(s, SkipWs(s, i + 1))
    ELSE IF s[i] = "[" THEN ArrayBody(s, SkipWs(s, i + 1))
    ELSE IF s[i] = "\"" THEN ScanString(s, i + 1, <<>>)
    ELSE IF s[i] \in NumAtoms THEN Ok(Num(NumOf(s[i])), i + 1)
    ELSE IF s[i] = "true" THEN Ok(Bool(TRUE), i + 1)
    ELSE IF s[i] = "false" THEN Ok(Bool(FALSE), i + 1)
    ELSE IF s[i] = "null" THEN Ok(Null, i + 1)
    ELSE Fail

\* the value r was read from the start of s: anything but whitespace after it
\* is "Extra data"
WholeText(s, r) == IF r.ok /\ SkipWs(s, r.pos) = Len(s) + 1 THEN r ELSE Fail

\* json.loads(s): ok = FALSE stands for json.JSONDecodeError
JsonLoads(s) == WholeText(s, ParseValue(s, SkipWs(s, 1)))

\* -------------------------------------------------------------- json.dumps

RECURSIVE Escape(_)
Escape(s) ==
    IF s = <<>> THEN <<>>
    ELSE IF Head(s) \in {"\"", "\\"} THEN <<"\\", Head(s)>> \o Escape(Tail(s))
    ELSE <<Head(s)>> \o Escape(Tail(s))

DumpStr(s) == <<"\"">> \o Escape(s) \o <<"\"">>

RECURSIVE JsonDumps(_)
RECURSIVE DumpItems(_, _)

\* the items of a list (isDict = FALSE) or of a dict, separated by ", "
DumpItems(xs, isDict) ==
    IF xs = <<>> THEN <<>>
    ELSE LET x    == Head(xs)
             item == IF isDict THEN DumpStr(x[1]) \o <<":", " ">> \o JsonDumps(x[2])
                     ELSE JsonDumps(x)
         IN  IF Len(xs) = 1 THEN item
             ELSE item \o <<",", " ">> \o DumpItems(Tail(xs), isDict)

\* json.dumps(v) with the default separators
JsonDumps(v) ==
    CASE v[1] = "str"  -> DumpStr(v[2])
      [] v[1] = "num"  -> <<AtomOf(v[2])>>
      [] v[1] = "bool" -> IF v[2] THEN <<"true">> ELSE <<"false">>
      [] v[1] = "null" -> <<"null">>
      [] v[1] = "list" -> <<"[">> \o DumpItems(v[2], FALSE) \o <<"]">>
      [] v[1] = "dict" -> <<"{">> \o DumpItems(v[2], TRUE) \o <<"}">>

\* ------------------------------------------------------------ PlannerNode

RequiredKeys == <<"step", "description", "task", "category">>

Categories ==
    {"install", "configure", "start", "stop", "check", "create", "delete",
     "update", "other"}

\* BasicPlan with the warnings list left empty
BasicPlan_NoWarnings(task, warning) ==
    Dict(<< <<<<"plan">>,
              List(<< Dict(<< <<<<"step">>, Num(1)>>,
                              <<<<"description">>, Str(<<"Execute user request">>)>>,
                              <<<<"task">>, Str(task)>>,
                              <<<<"category">>, Str(<<"other">>)>> >>) >>)>>,
            <<<<"summary">>, Str(<<"Execute user request">>)>>,
            <<<<"estimated_time">>, Str(<<"Unknown">>)>>,
            <<<<"requires_sudo">>, Bool(FALSE)>>,
            <<<<"warnings">>, List(<<>>)>> >>)

\* the single-step plan both fallbacks of _parse_response build
BasicPlan(task, warning) ==
    Dict(<< <<<<"plan">>,
              List(<< Dict(<< <<<<"step">>, Num(1)>>,
                              <<<<"description">>, Str(<<"Execute user request">>)>>,
                              <<<<"task">>, Str(task)>>,
                              <<<<"category">>, Str(<<"other">>)>> >>) >>)>>,
            <<<<"summary">>, Str(<<"Execute user request">>)>>,
            <<<<"estimated_time">>, Str(<<"Unknown">>)>>,
            <<<<"requires_sudo">>, Bool(FALSE)>>,
            <<<<"warnings">>, List(<< Str(<<warning>>) >>)>> >>)

\* return json.loads(...), with the except branch of _parse_response for a
\* JSONDecodeError; r is what json.loads did
LoadedOrBasicPlan(response, r) ==
    IF r.ok THEN r.val
    ELSE BasicPlan(Strip(response), "Could not parse LLM response")

\* _parse_response without the direct parse and with end_idx = rfind('}'):
\* the slice always loses its closing brace
ParseResponse_ShortSlice(response) ==
    IF Find(response, "{") # -1 /\ RFind(response, "}") # -1
    THEN LoadedOrBasicPlan(response,
             JsonLoads(Slice(response, Find(response, "{"), RFind(response, "}"))))
    ELSE BasicPlan(Strip(response), "Could not parse detailed plan")

\* PlannerNode._parse_response
ParseResponse(response) ==
    IF StartsWith(Strip(response), "{")
    THEN LoadedOrBasicPlan(response, JsonLoads(response))
    ELSE LET start_idx == Find(response, "{")
             end_idx   == RFind(response, "}") + 1
         IN  IF start_idx # -1 /\ end_idx # -1
             THEN LoadedOrBasicPlan(response,
                      JsonLoads(Slice(response, start_idx, end_idx)))
             ELSE BasicPlan(Strip(response), "Could not parse detailed plan")

\* the plan the except branch of PlannerNode.plan returns
FallbackPlan(user_input, error) ==
    Dict(<< <<<<"plan">>,
              List(<< Dict(<< <<<<"step">>, Num(1)>>,
                              <<<<"description">>, Str(<<"Execute user request">>)>>,
                              <<<<"task">>, Str(user_input)>>,
                              <<<<"category">>, Str(<<"other">>)>> >>) >>)>>,
            <<<<"summary">>, Str(<<"Execute user request (fallback plan)">>)>>,
            <<<<"estimated_time">>, Str(<<"Unknown">>)>>,
            <<<<"requires_sudo">>, Bool(FALSE)>>,
            <<<<"warnings">>, List(<< Str(<<"Planning failed: ", error>>) >>)>> >>)

\* key in step: "TypeError" when step is not a container
KeyIn(key, step) ==
    CASE step[1] = "dict" -> IF DictHas(step, <<key>>) THEN "True" ELSE "False"
      [] step[1] = "str"  -> IF \E i \in 1..Len(step[2]) : step[2][i] = key
                            THEN "True" ELSE "False"
      [] step[1] = "list" -> IF \E i \in 1..Len(step[2]) : step[2][i] = Str(<<key>>)
                            THEN "True" ELSE "False"
      [] OTHER -> "TypeError"

\* all(key in step for key in [...]) from the i-th key on: stops at the first
\* False or error
RECURSIVE AllKeysIn(_, _)
AllKeysIn(step, i) ==
    IF i > Len(RequiredKeys) THEN "True"
    ELSE IF KeyIn(RequiredKeys[i], step) = "True" THEN AllKeysIn(step, i + 1)
    ELSE KeyIn(RequiredKeys[i], step)

\* the exception the check of one step raises, "none" when it passes
StepError(r) ==
    IF r = "True" THEN "none" ELSE IF r = "False" THEN "ValueError" ELSE "TypeError"

\* the for loop over plan['plan']: "none", or the exception the first bad
\* step raises
RECURSIVE CheckSteps(_, _)
CheckSteps(steps, i) ==
    IF i > Len(steps) THEN "none"
    ELSE IF AllKeysIn(steps[i], 1) = "True" THEN CheckSteps(steps, i + 1)
    ELSE StepError(AllKeysIn(steps[i], 1))

\* the validation of the parsed plan: the exception raised ("none" when the
\* plan is returned) and the value returned
Validate(plan) ==
    IF DictGet(plan, <<"plan">>)[1] # "list" THEN [exc |-> "ValueError", val |-> Null]
    ELSE [exc |-> CheckSteps(DictGet(plan, <<"plan">>)[2], 1), val |-> plan]

\* the try block of PlannerNode.plan under the LLM outcome o: the exception
\* that leaves it ("none" when it returns) and the value it returns
PlanBody(user_input, o) ==
    CASE o.kind = "exception" -> [exc |-> "Exception", val |-> Null]
      [] o.kind = "content_not_str" -> [exc |-> "AttributeError", val |-> Null]
      [] o.kind = "content" -> Validate(ParseResponse(o.text))

\* the classes "except Exception" catches, among those the try block raises
CaughtByExcept == {"Exception", "ValueError", "TypeError", "AttributeError"}

\* the except clause of PlannerNode.plan, body being what the try block did;
\* raised = TRUE when an exception leaves plan
Except(user_input, body) ==
    IF body.exc = "none" THEN [raised |-> FALSE, val |-> body.val]
    ELSE IF body.exc \in CaughtByExcept
         THEN [raised |-> FALSE, val |-> FallbackPlan(user_input, body.exc)]
    ELSE [raised |-> TRUE, val |-> Null]

\* PlannerNode.plan under the LLM outcome o
Plan(user_input, o) == Except(user_input, PlanBody(user_input, o))

EmptyInputPlan ==
    Dict(<< <<<<"plan">>, List(<<>>)>>,
            <<<<"summary">>, Str(<<"No input provided">>)>>,
            <<<<"estimated_time">>, Str(<<"0 minutes">>)>>,
            <<<<"requires_sudo">>, Bool(FALSE)>>,
            <<<<"warnings">>, List(<< Str(<<"No user input provided">>) >>)>> >>)

\* state.get('user_input', '')
GetUserInput(s) == IF "user_input" \in DOMAIN s THEN s.user_input ELSE <<>>

\* the return of __call__ after plan: p is what plan did
UpdateState(s, p) ==
    IF p.raised
    THEN [raised |-> TRUE, invoked |-> TRUE, planned |-> Null, state |-> s, val |-> s]
    ELSE [raised |-> FALSE, invoked |-> TRUE, planned |-> p.val, state |-> s,
          val |-> ("plan" :> p.val) @@ ("current_step" :> 0)
                  @@ ("completed_steps" :> <<>>) @@ ("failed_steps" :> <<>>) @@ s]

\* __call__ asking the LLM before it looks at user_input
CallNode_InvokesFirst(s, o) ==
    IF GetUserInput(s) = <<>>
    THEN [raised |-> FALSE, invoked |-> TRUE, planned |-> Null, state |-> s,
          val |-> ("plan" :> EmptyInputPlan) @@ s]
    ELSE UpdateState(s, Plan(GetUserInput(s), o))

\* __call__ returning the empty-input response without **state
CallNode_DropsState(s, o) ==
    IF GetUserInput(s) = <<>>
    THEN [raised |-> FALSE, invoked |-> FALSE, planned |-> Null, state |-> s,
          val |-> ("plan" :> EmptyInputPlan)]
    ELSE UpdateState(s, Plan(GetUserInput(s), o))

\* PlannerNode.__call__ under the LLM outcome o: the returned dict (val), the
\* contents of the dict passed once the call is over (state), what plan
\* returned, whether an exception left the call, whether the LLM was invoked
CallNode(s, o) ==
    IF GetUserInput(s) = <<>>
    THEN [raised |-> FALSE, invoked |-> FALSE, planned |-> Null, state |-> s,
          val |-> ("plan" :> EmptyInputPlan) @@ s]
    ELSE UpdateState(s, Plan(GetUserInput(s), o))

\* ------------------------------------------------------------------ inputs

MaxRawLen == 3

MaxSteps == 2

RawAtoms == {"{", "}", "[", "]", " ", "x", "1", "\""}

\* every text of at most MaxRawLen atoms
RawTexts == UNION {[1..n -> RawAtoms] : n \in 0..MaxRawLen}

StepOf(category) ==
    Dict(<< <<<<"step">>, Num(1)>>,
            <<<<"description">>, Str(<<"Install", " ", "nginx">>)>>,
            <<<<"task">>, Str(<<"Install", " ", "the", " ", "\"", "nginx", "\"">>)>>,
            <<<<"category">>, Str(<<category>>)>> >>)

NamesText == <<"step", " ", "description", " ", "task", " ", "category">>

\* what an LLM may put in the "plan" list
StepElems ==
    { StepOf("install"),
      StepOf("bogus"),
      Dict(<< <<<<"step">>, Str(<<"one">>)>>, <<<<"description">>, Num(2)>>,
              <<<<"task">>, Null>>, <<<<"category">>, List(<<>>)>> >>),
      Dict(<< <<<<"step">>, Num(2)>>, <<<<"description">>, Str(<<"d">>)>>,
              <<<<"task">>, Str(<<"t">>)>> >>),
      Dict(<<>>),
      Str(NamesText),
      Str(<<"step">>),
      List(<< Str(<<"step">>), Str(<<"description">>), Str(<<"task">>),
              Str(<<"category">>) >>),
      Num(1),
      Null }

StepLists == UNION {[1..n -> StepElems] : n \in 0..MaxSteps}

Metadata ==
    << <<<<"summary">>, Str(<<"Install", " ", "{", "nginx", "}", "\\">>)>>,
       <<<<"estimated_time">>, Str(<<"2-3", " ", "minutes">>)>>,
       <<<<"requires_sudo">>, Bool(TRUE)>>,
       <<<<"warnings">>, List(<<>>)>> >>

\* the JSON objects an LLM may answer with
PlanValues ==
    { Dict(<< <<<<"plan">>, List(xs)>> >>) : xs \in StepLists }
    \cup { Dict(<< <<<<"plan">>, List(xs)>> >> \o Metadata) : xs \in StepLists }
    \cup { Dict(<< <<<<"plan">>, x>> >> \o Metadata)
             : x \in {Null, Num(1), Str(NamesText), StepOf("install")} }
    \cup { Dict(Metadata), Dict(<<>>) }

SmallValues ==
    { Dict(<<>>),
      Dict(<< <<<<"plan">>, List(<<>>)>> >>),
      Dict(<< <<<<"plan">>, List(<< StepOf("install") >>)>> >> \o Metadata),
      List(<< Dict(<< <<<<"plan">>, List(<<>>)>> >>) >>),
      List(<< Dict(<<>>), Dict(<<>>) >>),
      Str(<<"{", "}">>),
      Num(1) }

Margins == {<<>>, <<" ">>, <<"x", " ">>, <<" ", "x">>, <<"}", " ">>, <<" ", "{">>}

\* JSON with text around it
Wrapped ==
    { pre \o JsonDumps(v) \o post : v \in SmallValues, pre \in Margins, post \in Margins }

\* a duplicate key (json.loads keeps the last value), a trailing comma, a
\* missing colon, an escape JSON does not have, and a cut-off answer
Irregular ==
    { <<"{", "\"", "plan", "\"", ":", "[", "]", ",", "\"", "plan", "\"", ":", "1", "}">>,
      <<"{", "\"", "plan", "\"", ":", "[", "]", ",", "}">>,
      <<"{", "\"", "plan", "\"", "[", "]", "}">>,
      <<"{", "\"", "plan", "\"", ":", "[", "\"", "\\", "x", "\"", "]", "}">> }
    \cup { SubSeq(JsonDumps(v), 1, n)
             : v \in { Dict(<< <<<<"plan">>, List(<< StepOf("install") >>)>> >>) },
               n \in 1..12 }

Responses ==
    RawTexts \cup { JsonDumps(v) : v \in PlanValues } \cup Wrapped \cup Irregular

NoOutcome == [kind |-> "none", text |-> <<>>]

\* self.llm.invoke raises an Exception, returns a message whose content is
\* not a str, or returns the text r (as a message content or as a plain str);
\* a BaseException that is no Exception (KeyboardInterrupt) is not among them
Outcomes ==
    { [kind |-> k, text |-> <<>>] : k \in {"exception", "content_not_str"} }
    \cup { [kind |-> "content", text |-> r] : r \in Responses }

Instructions == { <<"install", " ", "nginx">>, <<"show", " ", "{", "all", "}">> }

StaleTracking ==
    [current_step |-> 2, completed_steps |-> <<1>>, failed_steps |-> <<2>>]

OtherKeys == [session |-> "s1", plan |-> Dict(<< <<<<"plan">>, List(<<>>)>> >>)]

NoKeys == [k \in {} |-> 0]

\* the graph states __call__ may be given
InputStates ==
    { a @@ b @@ c :
        a \in {NoKeys} \cup { [user_input |-> i] : i \in Instructions \cup {<<>>} },
        b \in {NoKeys, StaleTracking},
        c \in {NoKeys, OtherKeys} }

\* ----------------------------------------------------------------- actions

Init ==
    /\ op = "none"
    /\ status = "idle"
    /\ arg = NoKeys
    /\ state = NoKeys
    /\ result = NoKeys
    /\ plan_arg = <<>>
    /\ outcome = NoOutcome
    /\ plan_ret = Null
    /\ parse_arg = <<>>
    /\ parsed = Null
    /\ llm_invocations = 0

\* node(s): PlannerNode.__call__ on the graph state s; the LLM answers with o
\* when the call reaches it
Call ==
    /\ status = "idle"
    /\ \E s \in InputStates :
         \E o \in (IF GetUserInput(s) = <<>> THEN {NoOutcome} ELSE Outcomes) :
           \E r \in {CallNode(s, o)} :
               /\ op' = "__call__"
               /\ status' = IF r.raised THEN "raised" ELSE "returned"
               /\ arg' = s
               /\ state' = r.state
               /\ result' = r.val
               /\ plan_arg' = GetUserInput(s)
               /\ outcome' = o
               /\ plan_ret' = r.planned
               /\ llm_invocations' = llm_invocations + (IF r.invoked THEN 1 ELSE 0)
    /\ UNCHANGED <<parse_arg, parsed>>

\* node.plan(input): PlannerNode.plan; the LLM answers with o
PlanCall ==
    /\ status = "idle"
    /\ \E input \in Instructions \cup {<<>>} :
         \E o \in Outcomes :
           \E r \in {Plan(input, o)} :
               /\ op' = "plan"
               /\ status' = IF r.raised THEN "raised" ELSE "returned"
               /\ plan_arg' = input
               /\ outcome' = o
               /\ plan_ret' = r.val
               /\ llm_invocations' = llm_invocations + 1
    /\ UNCHANGED <<arg, state, result, parse_arg, parsed>>

\* node._parse_response(r): PlannerNode._parse_response
ParseCall ==
    /\ status = "idle"
    /\ \E r \in Responses :
         /\ op' = "_parse_response"
         /\ status' = "returned"
         /\ parse_arg' = r
         /\ parsed' = ParseResponse(r)
    /\ UNCHANGED <<arg, state, result, plan_arg, outcome, plan_ret, llm_invocations>>

\* PlannerNode keeps nothing from one call to the next (the LLM client and the
\* prompt are only read), so a behaviour is one call on the constructed node
Next == Call \/ PlanCall \/ ParseCall

Spec == Init /\ [][Next]_vars

\* ------------------------------------------------------ shapes of a result

\* the elements of p['plan'] when p is a dict that holds a list there
StepsOf(p) ==
    IF p[1] = "dict" /\ DictGet(p, <<"plan">>)[1] = "list"
    THEN DictGet(p, <<"plan">>)[2]
    ELSE <<>>

HasStepFields(e) ==
    /\ e[1] = "dict"
    /\ \A i \in 1..Len(RequiredKeys) : DictHas(e, <<RequiredKeys[i]>>)

HasPlanShape(p) ==
    /\ p[1] = "dict"
    /\ DictGet(p, <<"plan">>)[1] = "list"
    /\ \A k \in {"summary", "estimated_time", "requires_sudo", "warnings"} :
         DictHas(p, <<k>>)

TypedStep(e) ==
    /\ HasStepFields(e)
    /\ DictGet(e, <<"step">>)[1] = "num"
    /\ \A k \in {"description", "task", "category"} : DictGet(e, <<k>>)[1] = "str"

TypedPlan(p) ==
    /\ HasPlanShape(p)
    /\ \A i \in 1..Len(StepsOf(p)) : TypedStep(StepsOf(p)[i])
    /\ DictGet(p, <<"summary">>)[1] = "str"
    /\ DictGet(p, <<"estimated_time">>)[1] = "str"
    /\ DictGet(p, <<"requires_sudo">>)[1] = "bool"
    /\ DictGet(p, <<"warnings">>)[1] = "list"

\* one step, numbered 1, of category 'other', with a non-empty warnings list
SingleStepFallback(p) ==
    /\ HasPlanShape(p)
    /\ Len(StepsOf(p)) = 1
    /\ HasStepFields(StepsOf(p)[1])
    /\ DictGet(StepsOf(p)[1], <<"step">>) = Num(1)
    /\ DictGet(StepsOf(p)[1], <<"category">>) = Str(<<"other">>)
    /\ DictGet(p, <<"warnings">>)[1] = "list"
    /\ DictGet(p, <<"warnings">>)[2] # <<>>

\* the text between the first "{" and the last "}", both included
Braced(text) == Slice(text, Find(text, "{"), RFind(text, "}") + 1)

WholeIsObject(text) == JsonLoads(text).ok /\ JsonLoads(text).val[1] = "dict"

BracedIsJson(text) == Find(text, "{") # -1 /\ JsonLoads(Braced(text)).ok

\* no strategy finds JSON in the text: no "{" at all, or neither the whole
\* text nor its braced part is well-formed
NoJsonFound(text) ==
    \/ Find(text, "{") = -1
    \/ ~JsonLoads(text).ok /\ ~BracedIsJson(text)

\* the text carries a complete, rightly typed plan
CarriesTypedPlan(text) ==
    IF WholeIsObject(text) THEN TypedPlan(JsonLoads(text).val)
    ELSE BracedIsJson(text) /\ TypedPlan(JsonLoads(Braced(text)).val)

\* the planning attempt failed: the LLM call raised, or its answer is not a
\* complete, rightly typed plan
Failure(o) ==
    \/ o.kind \in {"exception", "content_not_str"}
    \/ o.kind = "content" /\ ~CarriesTypedPlan(o.text)

\* plan ran, directly or from __call__
PlanCalled == op \in {"plan", "__call__"} /\ outcome.kind # "none"

PlanReturned == PlanCalled /\ status = "returned"

TrackingKeys == {"plan", "current_step", "completed_steps", "failed_steps"}

\* ------------------------------------------------------------------ claims

\* C1: plan and __call__ never raise, and on every failure (an exception of
\* the LLM call, malformed JSON, JSON with missing or wrongly typed fields)
\* plan returns the single-step fallback Plan, whose task is the user input or
\* the raw response, with a non-empty warnings list.
C1_NeverRaisesAlwaysFallsBack ==
    /\ op \in {"plan", "__call__"} => status # "raised"
    /\ PlanCalled /\ Failure(outcome) =>
         /\ status = "returned"
         /\ SingleStepFallback(plan_ret)
         /\ DictGet(StepsOf(plan_ret)[1], <<"task">>)
              \in {Str(plan_arg), Str(outcome.text), Str(Strip(outcome.text))}

\* C2: when the response is malformed JSON or holds no JSON object at all,
\* plan returns a single-step fallback Plan: one step with step = 1, category
\* 'other' and the four step fields, with summary, estimated_time,
\* requires_sudo and a non-empty warnings list.
C2_MalformedYieldsFallback ==
    PlanCalled /\ outcome.kind = "content" /\ NoJsonFound(outcome.text) =>
        status = "returned" /\ SingleStepFallback(plan_ret)

C2_Witness ==
    /\ op = "plan"
    /\ status = "returned"
    /\ outcome.kind = "content"
    /\ outcome.text = <<"}", " ", "{">>
    /\ SingleStepFallback(plan_ret)

\* C3: every element of the 'plan' list of a Plan returned by plan is a record
\* with the fields step, description, task and category.
C3_EveryStepHasFields ==
    PlanReturned => \A i \in 1..Len(StepsOf(plan_ret)) : HasStepFields(StepsOf(plan_ret)[i])

\* C4: a call of __call__ with a missing or empty user_input returns the
\* empty-plan response and does not invoke the LLM.
C4_EmptyInputSkipsLLM ==
    [][ op' = "__call__" /\ GetUserInput(arg') = <<>> =>
          /\ llm_invocations' = llm_invocations
          /\ status' = "returned"
          /\ "plan" \in DOMAIN result'
          /\ StepsOf(result'.plan) = <<>>
          /\ DictGet(result'.plan, <<"plan">>) = List(<<>>)
          /\ DictGet(result'.plan, <<"summary">>) = Str(<<"No input provided">>)
          /\ DictGet(result'.plan, <<"requires_sudo">>) = Bool(FALSE)
          /\ DictGet(result'.plan, <<"warnings">>)
               = List(<< Str(<<"No user input provided">>) >>) ]_vars

C4_Witness ==
    /\ op = "__call__"
    /\ status = "returned"
    /\ "user_input" \notin DOMAIN arg
    /\ "current_step" \in DOMAIN arg
    /\ result.plan = EmptyInputPlan
    /\ llm_invocations = 0

\* C5: _parse_response tries the whole response, then the text from the first
\* "{" to the last "}", and only when both fail returns the single-step plan
\* wrapping the raw text.
C5_ThreeStrategiesInOrder ==
    op = "_parse_response" =>
        /\ WholeIsObject(parse_arg) => parsed = JsonLoads(parse_arg).val
        /\ ~WholeIsObject(parse_arg) /\ BracedIsJson(parse_arg) =>
             parsed = JsonLoads(Braced(parse_arg)).val
        /\ ~WholeIsObject(parse_arg) /\ ~BracedIsJson(parse_arg) =>
             /\ SingleStepFallback(parsed)
             /\ DictGet(StepsOf(parsed)[1], <<"task">>) = Str(Strip(parse_arg))

\* C6: for a well-formed JSON response, serialising the value _parse_response
\* returned and parsing it again returns the same value; a well-formed JSON
\* object is returned as the object it denotes, whitespace around it or not.
C6_ParseIdempotent ==
    op = "_parse_response" /\ JsonLoads(parse_arg).ok =>
        /\ ParseResponse(JsonDumps(parsed)) = parsed
        /\ WholeIsObject(parse_arg) => parsed = JsonLoads(parse_arg).val

C6_Witness ==
    /\ op = "_parse_response"
    /\ WholeIsObject(parse_arg)
    /\ parse_arg[1] = " "
    /\ parse_arg[Len(parse_arg)] = " "
    /\ parsed[2] # <<>>
    /\ JsonDumps(parsed) # parse_arg
    /\ ParseResponse(JsonDumps(parsed)) = parsed

\* C7: every Plan returned by plan has the complete Plan shape: a list of
\* steps plus summary, estimated_time, requires_sudo and warnings.
C7_CompletePlanShape == PlanReturned => HasPlanShape(plan_ret)

\* C8: the category of every step of a Plan returned by plan is one of the
\* nine enumerated values.
C8_CategoryEnumerated ==
    PlanReturned =>
        \A i \in 1..Len(StepsOf(plan_ret)) :
            LET e == StepsOf(plan_ret)[i]
            IN  e[1] = "dict" /\ DictHas(e, <<"category">>) =>
                    \E c \in Categories : DictGet(e, <<"category">>) = Str(<<c>>)

\* C9: every call of __call__ that returns, returns a state that holds the
\* Plan and the step-tracking fields reset: current_step = 0,
\* completed_steps = [] and failed_steps = [].
C9_TrackingAlwaysReset ==
    op = "__call__" /\ status = "returned" =>
        /\ TrackingKeys \subseteq DOMAIN result
        /\ result.current_step = 0
        /\ result.completed_steps = <<>>
        /\ result.failed_steps = <<>>

\* C10: __call__ leaves every key other than plan, current_step,
\* completed_steps and failed_steps as it was, drops no key, adds no other
\* key, and does not modify the dict it was given.
C10_FrameUnchanged ==
    op = "__call__" /\ status = "returned" =>
        /\ DOMAIN arg \subseteq DOMAIN result
        /\ DOMAIN result \subseteq DOMAIN arg \cup TrackingKeys
        /\ \A k \in DOMAIN arg \ TrackingKeys : result[k] = arg[k]
        /\ state = arg

C10_Witness ==
    /\ op = "__call__"
    /\ status = "returned"
    /\ outcome.kind = "content"
    /\ {"user_input", "session", "plan", "current_step"} \subseteq DOMAIN arg
    /\ result.session = arg.session
    /\ result.user_input = arg.user_input
    /\ result.plan # arg.plan
    /\ result.current_step # arg.current_step

====
